---- MODULE Spec2Model ----
(***************************************************************************)
(* Model of the webnnpu image-classification demo: the video page          *)
(* (module-level state modelSession / isProcessing, the DOMContentLoaded   *)
(* handler, the processFrame loop) and the pure numeric routines of both   *)
(* scripts (imageDataToTensor, softmax, getTopK, imagenetClassesTopK).     *)
(*                                                                         *)
(* JavaScript arrays are 0-based; TLA+ sequences are 1-based, so the JS    *)
(* element a[i] is the TLA+ element a[i + 1].  Strings that the code       *)
(* edits character by character (class names) are sequences of             *)
(* one-character strings.                                                  *)
(***************************************************************************)
EXTENDS Integers, Sequences, FiniteSets

VARIABLES
    modelSession,   \* part_000:11  "null" or "session"
    isProcessing,   \* part_000:12  the busy flag
    handler,        \* position of the DOMContentLoaded handler (part_000:15-37)
    listener,       \* TRUE once the 'loadeddata' listener is registered (part_000:27)
    chain,          \* one processVideoFrames invocation per handled 'loadeddata'
    status,         \* statusDiv.textContent
    detections,     \* detectionsDiv.innerHTML: the frame whose predictions are shown
    paused,         \* video.paused || video.ended
    events,         \* number of 'loadeddata' events fired so far
    dropped,        \* number of ticks that found isProcessing true
    nullRun,        \* TRUE once runModel was invoked while modelSession was null
    call,           \* the pure-function call under check: function name and arguments
    ret,            \* its outcome: a returned value or a thrown error
    pc              \* "idle", "call" (not yet run) or "done"

vars == <<modelSession, isProcessing, handler, listener, chain, status, detections,
          paused, events, dropped, nullRun, call, ret, pc>>

videoVars == <<modelSession, isProcessing, handler, listener, chain, status,
               detections, paused, events, dropped, nullRun>>

pureVars == <<call, ret, pc>>

-----------------------------------------------------------------------------
(* Small helpers *)

Min(a, b) == IF a < b THEN a ELSE b

SeqsUpTo(S, n) == UNION {[1..m -> S] : m \in 0..n}

Reverse(s) == [i \in 1..Len(s) |-> s[Len(s) + 1 - i]]

RECURSIVE SumSeq(_)
SumSeq(s) == IF s = <<>> THEN 0 ELSE s[1] + SumSeq(Tail(s))

(* Outcome of a call: a returned value or a thrown exception. *)
NoResult == [kind |-> "none"]
Return(v) == [kind |-> "value", value |-> v]
Throw(e) == [kind |-> "error", error |-> e]

-----------------------------------------------------------------------------
(* The label table, part_000:2-9 *)

imagenetClasses ==
   <<
      <<0, <<"t", "e", "n", "c", "h">>>>,
      <<1, <<"g", "o", "l", "d", "f", "i", "s", "h">>>>,
      <<2, <<"g", "r", "e", "a", "t", "_", "w", "h", "i", "t", "e", "_", "s", "h", "a", "r", "k">>>>,
      <<3, <<"t", "i", "g", "e", "r", "_", "s", "h", "a", "r", "k">>>>,
      <<4, <<"h", "a", "m", "m", "e", "r", "h", "e", "a", "d">>>>,
      <<5, <<"e", "l", "e", "c", "t", "r", "i", "c", "_", "r", "a", "y">>>>,
      <<6, <<"s", "t", "i", "n", "g", "r", "a", "y">>>>,
      <<7, <<"c", "o", "c", "k">>>>,
      <<8, <<"h", "e", "n">>>>,
      <<9, <<"o", "s", "t", "r", "i", "c", "h">>>>,
      <<10, <<"b", "r", "a", "m", "b", "l", "i", "n", "g">>>>,
      <<11, <<"g", "o", "l", "d", "f", "i", "n", "c", "h">>>>,
      <<12, <<"h", "o", "u", "s", "e", "_", "f", "i", "n", "c", "h">>>>,
      <<13, <<"j", "u", "n", "c", "o">>>>,
      <<14, <<"i", "n", "d", "i", "g", "o", "_", "b", "u", "n", "t", "i", "n", "g">>>>,
      <<15, <<"r", "o", "b", "i", "n">>>>,
      <<16, <<"b", "u", "l", "b", "u", "l">>>>,
      <<17, <<"j", "a", "y">>>>,
      <<18, <<"m", "a", "g", "p", "i", "e">>>>,
      <<19, <<"c", "h", "i", "c", "k", "a", "d", "e", "e">>>>
   >>

(* imagenetClasses[index]: the entry, or undefined when index is past the table. *)
HasClass(index) == index + 1 \in DOMAIN imagenetClasses

ClassAt(index) == imagenetClasses[index + 1]

-----------------------------------------------------------------------------
(* String primitives used by the top-K routines *)

(* String.prototype.replace(/_/g, " ") *)
ReplaceUnderscores(s) == [i \in DOMAIN s |-> IF s[i] = "_" THEN " " ELSE s[i]]

DigitChars == <<"0", "1", "2", "3", "4", "5", "6", "7", "8", "9">>

(* Number.prototype.toString() of a non-negative integer *)
RECURSIVE NumberToString(_)
NumberToString(n) ==
    IF n < 10 THEN <<DigitChars[n + 1]>>
    ELSE NumberToString(n \div 10) \o <<DigitChars[(n % 10) + 1]>>

DigitValue(c) == (CHOOSE d \in DOMAIN DigitChars : DigitChars[d] = c) - 1

(* parseInt(s, 10) of a string of decimal digits *)
RECURSIVE ParseInt(_)
ParseInt(s) ==
    IF Len(s) = 1 THEN DigitValue(s[1])
    ELSE 10 * ParseInt(SubSeq(s, 1, Len(s) - 1)) + DigitValue(s[Len(s)])

(* The template literal `class_${index}` *)
FallbackName(index) == <<"c", "l", "a", "s", "s", "_">> \o NumberToString(index)

-----------------------------------------------------------------------------
(* Top-K selection *)

(* probs.map((prob, index) => [prob, index]); a pair is <<prob, index>>. *)
PairWithIndex(probs) == [i \in 1..Len(probs) |-> <<probs[i], i - 1>>]

(* The comparator of part_000:176, (a, b) => b[0] - a[0]. *)
compareDesc(a, b) == b[1] - a[1]

(* Insert x into the sorted sequence s behind every element that the          *)
(* comparator does not place after it: the step of a stable sort.            *)
InsertDesc(s, x) ==
    LET after == {i \in 1..Len(s) : compareDesc(x, s[i]) < 0}
        pos == IF after = {} THEN Len(s) + 1
               ELSE CHOOSE i \in after : \A j \in after : i <= j
    IN SubSeq(s, 1, pos - 1) \o <<x>> \o SubSeq(s, pos, Len(s))

(* Array.prototype.sort((a, b) => b[0] - a[0]): a stable sort (ES2019),      *)
(* descending by probability.                                                *)
RECURSIVE ArraySortDesc(_)
ArraySortDesc(arr) ==
    IF arr = <<>> THEN <<>>
    ELSE InsertDesc(ArraySortDesc(SubSeq(arr, 1, Len(arr) - 1)), arr[Len(arr)])

(* Array.prototype.slice(0, k), k >= 0 *)
SliceTo(arr, k) == SubSeq(arr, 1, Min(k, Len(arr)))

(* getTopK of the video script. *)
getTopK(classProbabilities, k) ==
    LET probs == classProbabilities
        sorted == SliceTo(ArraySortDesc(PairWithIndex(probs)), k)
    IN Return([i \in 1..Len(sorted) |->
           LET prob == sorted[i][1]
               index == sorted[i][2]
               className == IF HasClass(index) THEN ClassAt(index)[2]
                            ELSE FallbackName(index)
           IN [id |-> index,
               name |-> ReplaceUnderscores(className),
               probability |-> prob]])

(* _.sortBy(pairs, probIndex => probIndex[0]): a stable sort, ascending by    *)
(* probability.                                                              *)
InsertAsc(s, x) ==
    LET after == {i \in 1..Len(s) : x[1] < s[i][1]}
        pos == IF after = {} THEN Len(s) + 1
               ELSE CHOOSE i \in after : \A j \in after : i <= j
    IN SubSeq(s, 1, pos - 1) \o <<x>> \o SubSeq(s, pos, Len(s))

RECURSIVE sortBy(_)
sortBy(arr) ==
    IF arr = <<>> THEN <<>>
    ELSE InsertAsc(sortBy(SubSeq(arr, 1, Len(arr) - 1)), arr[Len(arr)])

(* _.take(array, k), k >= 0 *)
take(arr, k) == SubSeq(arr, 1, Min(k, Len(arr)))

(* imagenetClassesTopK of main.js.  imagenetClasses[probIndex[1]] is          *)
(* undefined for an index past the table, and reading iClass[0] of           *)
(* undefined throws a TypeError out of the map callback.                     *)
imagenetClassesTopK(classProbabilities, k) ==
    LET probs == classProbabilities
        sorted == Reverse(sortBy(PairWithIndex(probs)))
        taken == take(sorted, k)
    IN IF \E i \in 1..Len(taken) : ~HasClass(taken[i][2])
       THEN Throw("TypeError")
       ELSE Return([i \in 1..Len(taken) |->
                LET probIndex == taken[i]
                    iClass == ClassAt(probIndex[2])
                IN [id |-> iClass[1],
                    index |-> ParseInt(NumberToString(probIndex[2])),
                    name |-> ReplaceUnderscores(iClass[2]),
                    probability |-> probIndex[1]]])

-----------------------------------------------------------------------------
(* Floating-point values                                                     *)
(*                                                                           *)
(* A float is a record: c = "num" with the exact rational num/den, or        *)
(* c = "inf" (+Infinity) or c = "nan".  Rounding to the nearest binary       *)
(* value is not modelled; overflow to Infinity, underflow to 0 and the       *)
(* NaN-producing quotients are.                                              *)

Num(n, d) == [c |-> "num", num |-> n, den |-> d]
Inf == [c |-> "inf", num |-> 0, den |-> 1]
NaN == [c |-> "nan", num |-> 0, den |-> 1]

(* Scores are whole multiples of ln 2, so Math.exp(score) is the power of    *)
(* two 2^score.  Math.exp returns 0 below the smallest positive float and    *)
(* Infinity above the largest one (binary64: about -745 and 709); here the   *)
(* representable range is 2^-ExpUnderflow .. 2^ExpOverflow, and a finite     *)
(* exponential is held as a multiple of 2^-ExpUnderflow.                     *)
ExpUnderflow == 4
ExpOverflow == 2

MathExp(x) ==
    IF x > ExpOverflow THEN Inf
    ELSE IF x < -ExpUnderflow THEN Num(0, 1)
    ELSE Num(2 ^ (x + ExpUnderflow), 1)

(* a + b on exponentials *)
FloatAdd(a, b) ==
    IF a.c = "nan" \/ b.c = "nan" THEN NaN
    ELSE IF a.c = "inf" \/ b.c = "inf" THEN Inf
    ELSE Num(a.num + b.num, 1)

(* a / b on exponentials: Infinity / Infinity and 0 / 0 are NaN. *)
FloatDiv(a, b) ==
    IF a.c = "nan" \/ b.c = "nan" THEN NaN
    ELSE IF a.c = "inf" THEN (IF b.c = "inf" THEN NaN ELSE Inf)
    ELSE IF b.c = "inf" THEN Num(0, 1)
    ELSE IF b.num = 0 THEN (IF a.num = 0 THEN NaN ELSE Inf)
    ELSE Num(a.num, b.num)

-----------------------------------------------------------------------------
(* softmax *)

(* The naive softmax: no shift by the largest score. *)
MathMaxOmitted(arr) == 0

(* Math.max(...resultArray) of a non-empty array.  (Of an empty array it is  *)
(* -Infinity, which softmax never uses: map over an empty array calls        *)
(* nothing.)                                                                 *)
MathMax(arr) == CHOOSE m \in {arr[i] : i \in DOMAIN arr} : \A i \in DOMAIN arr : arr[i] <= m

RECURSIVE FoldAdd(_)
FoldAdd(arr) ==
    IF Len(arr) = 1 THEN arr[1]
    ELSE FloatAdd(FoldAdd(SubSeq(arr, 1, Len(arr) - 1)), arr[Len(arr)])

(* reduce given the initial value 0, which returns 0 for an empty array. *)
ReduceSumFromZero(arr) == IF arr = <<>> THEN Return(Num(0, 1)) ELSE Return(FoldAdd(arr))

(* arr.reduce((prev, cur) => prev + cur) with no initial value: a TypeError  *)
(* on an empty array.                                                        *)
ReduceSum(arr) == IF arr = <<>> THEN Throw("TypeError") ELSE Return(FoldAdd(arr))

(* softmax of the video script. *)
softmax(resultArray) ==
    LET largestNumber == MathMax(resultArray)
        sumOfExp == ReduceSum([i \in DOMAIN resultArray |->
                                  MathExp(resultArray[i] - largestNumber)])
    IN IF sumOfExp.kind = "error" THEN sumOfExp
       ELSE Return([i \in DOMAIN resultArray |->
                FloatDiv(MathExp(resultArray[i] - largestNumber), sumOfExp.value)])

(* softmax of main.js: the same computation. *)
softmaxMain(resultArray) ==
    LET largestNumber == MathMax(resultArray)
        sumOfExp == ReduceSum([i \in DOMAIN resultArray |->
                                  MathExp(resultArray[i] - largestNumber)])
    IN IF sumOfExp.kind = "error" THEN sumOfExp
       ELSE Return([i \in DOMAIN resultArray |->
                FloatDiv(MathExp(resultArray[i] - largestNumber), sumOfExp.value)])

-----------------------------------------------------------------------------
(* Pixel buffer to tensor *)

(* buffer[idx] / 255.0: reading past the end of the buffer gives undefined,  *)
(* and undefined / 255.0 is NaN.                                             *)
ChannelOver255(buffer, idx) ==
    IF idx + 1 \in DOMAIN buffer THEN Num(buffer[idx + 1], 255) ELSE NaN

(* The planar fill loop shared by both scripts: element c * pixelCount + i   *)
(* is buffer[4 * i + c] / 255.0 for c = 0 (red), 1 (green), 2 (blue).        *)
PlanarFill(buffer, pixelCount) ==
    [j \in 1..(3 * pixelCount) |->
        LET c == (j - 1) \div pixelCount
            i == (j - 1) % pixelCount
        IN ChannelOver255(buffer, i * 4 + c)]

(* imageDataToTensor of main.js: the size comes from the image itself and    *)
(* the buffer length is never checked.                                       *)
imageDataToTensorMain(image) ==
    LET imageBufferData == image.data
        pixelCount == image.width * image.height
        float32Data == PlanarFill(imageBufferData, pixelCount)
        dimensions == <<1, 3, image.height, image.width>>
    IN Return([data |-> float32Data, dims |-> dimensions])

(* What a 2D canvas gives back for one colour channel c of a pixel with      *)
(* alpha a after putImageData / drawImage / getImageData: the canvas holds   *)
(* premultiplied colour, so an opaque pixel comes back unchanged and a fully *)
(* transparent one comes back as 0.  In between the rounding is left to the  *)
(* browser; the buffers checked here use alpha 0 and 255 only.               *)
CanvasChannel(c, a) ==
    IF a = 255 THEN c
    ELSE IF a = 0 THEN 0
    ELSE Min(255, ((((c * a + 127) \div 255) * 255) + (a \div 2)) \div a)

(* resizeImageData with the target size equal to the source size, the only   *)
(* case modelled (scaling is the browser's resampling).  putImageData        *)
(* accepts only an ImageData, whose data length is 4 * width * height;       *)
(* anything else is a TypeError.                                             *)
resizeImageData(imageData, targetWidth, targetHeight) ==
    IF Len(imageData.data) # 4 * imageData.width * imageData.height
    THEN Throw("TypeError")
    ELSE Return([j \in 1..(4 * targetWidth * targetHeight) |->
             LET a == imageData.data[4 * ((j - 1) \div 4) + 4]
             IN IF (j - 1) % 4 = 3 THEN a ELSE CanvasChannel(imageData.data[j], a)])

(* imageDataToTensor of the video script. *)
imageDataToTensor(imageData, targetWidth, targetHeight) ==
    LET resizedData == resizeImageData(imageData, targetWidth, targetHeight)
        pixelCount == targetWidth * targetHeight
        dimensions == <<1, 3, targetHeight, targetWidth>>
    IN IF resizedData.kind = "error" THEN resizedData
       ELSE Return([data |-> PlanarFill(resizedData.value, pixelCount),
                    dims |-> dimensions])

-----------------------------------------------------------------------------
(* The video page                                                            *)

MaxEvents == 2      \* 'loadeddata' events fired
MaxFrames == 2      \* frames one processVideoFrames invocation starts
MaxDropped == 2     \* ticks counted as dropped

Status(kind, n) == [kind |-> kind, n |-> n]

(* A processVideoFrames invocation:                                          *)
(*   pc          "timer"     the next processFrame is scheduled (line 104)   *)
(*               "awaiting"  suspended at `await runModel(tensor)` (line 89) *)
(*               "returned"  processFrame returned at line 73                *)
(*   frameCount  the closure's counter (line 69)                             *)
(*   last        how its latest classification ended: "ok", "error", or      *)
(*               "none" before the first one ends and while one is running   *)
NewChain == [pc |-> "timer", frameCount |-> 0, last |-> "none"]

InFlight == {c \in DOMAIN chain : chain[c].pc = "awaiting"}

VideoInit ==
    /\ modelSession = "null"
    /\ isProcessing = FALSE
    /\ handler = "notfired"
    /\ listener = FALSE
    /\ chain = <<>>
    /\ status = Status("empty", 0)
    /\ detections = 0
    /\ paused \in BOOLEAN
    /\ events = 0
    /\ dropped = 0
    /\ nullRun = FALSE

PureIdle ==
    /\ call = [fn |-> "none"]
    /\ ret = NoResult
    /\ pc = "idle"

(* The handler had it registered the listener before awaiting initModel. *)
DOMContentLoadedRegistersFirst ==
    /\ handler = "notfired"
    /\ handler' = "awaitInit"
    /\ status' = Status("Loading model...", 0)
    /\ listener' = TRUE
    /\ UNCHANGED <<modelSession, isProcessing, chain, detections, paused,
                   events, dropped, nullRun>>

(* The DOMContentLoaded handler up to `await initModel()`: initModel runs to *)
(* its own await of InferenceSession.create.                                 *)
DOMContentLoaded ==
    /\ handler = "notfired"
    /\ handler' = "awaitInit"
    /\ status' = Status("Loading model...", 0)
    /\ UNCHANGED <<modelSession, isProcessing, listener, chain, detections, paused,
                   events, dropped, nullRun>>

(* InferenceSession.create resolves: initModel stores the session (line 63)  *)
(* and returns, and the handler goes on in the same microtask checkpoint to  *)
(* set the status and register the 'loadeddata' listener (lines 24-31).      *)
InitModelResolved ==
    /\ handler = "awaitInit"
    /\ modelSession' = "session"
    /\ status' = Status("Model loaded! Processing video frames...", 0)
    /\ listener' = TRUE
    /\ handler' = "done"
    /\ UNCHANGED <<isProcessing, chain, detections, paused, events, dropped, nullRun>>

(* InferenceSession.create rejects: the handler's catch (lines 33-36).       *)
InitModelRejected ==
    /\ handler = "awaitInit"
    /\ status' = Status("Error: ", 0)
    /\ handler' = "failed"
    /\ UNCHANGED <<modelSession, isProcessing, listener, chain, detections, paused,
                   events, dropped, nullRun>>

(* processFrame without the test of the busy flag (line 76). *)
ProcessFrameNoBusyCheck(c, ch, syncThrow) ==
    IF paused
    THEN /\ chain' = [ch EXCEPT ![c].pc = "returned"]
         /\ UNCHANGED <<isProcessing, status, dropped, nullRun>>
    ELSE /\ ch[c].frameCount < MaxFrames
         /\ IF syncThrow
            THEN /\ chain' = [ch EXCEPT ![c].pc = "timer",
                                        ![c].frameCount = @ + 1,
                                        ![c].last = "error"]
                 /\ status' = Status("Error processing frame: ", 0)
                 /\ isProcessing' = FALSE
                 /\ UNCHANGED <<dropped, nullRun>>
            ELSE /\ chain' = [ch EXCEPT ![c].pc = "awaiting",
                                        ![c].frameCount = @ + 1,
                                        ![c].last = "none"]
                 /\ isProcessing' = TRUE
                 /\ nullRun' = (nullRun \/ modelSession = "null")
                 /\ UNCHANGED <<status, dropped>>

(* One run of processFrame for invocation c of the sequence ch, up to its    *)
(* return or its await.  syncThrow: drawImage, getImageData or               *)
(* imageDataToTensor throws, so the catch and the reset of the flag run in   *)
(* the same task.  Otherwise runModel is called and processFrame is          *)
(* suspended with the flag set.                                              *)
ProcessFrame(c, ch, syncThrow) ==
    IF paused
    THEN /\ chain' = [ch EXCEPT ![c].pc = "returned"]
         /\ UNCHANGED <<isProcessing, status, dropped, nullRun>>
    ELSE IF isProcessing
    THEN /\ dropped < MaxDropped
         /\ dropped' = dropped + 1
         /\ chain' = [ch EXCEPT ![c].pc = "timer"]
         /\ UNCHANGED <<isProcessing, status, nullRun>>
    ELSE /\ ch[c].frameCount < MaxFrames
         /\ IF syncThrow
            THEN /\ chain' = [ch EXCEPT ![c].pc = "timer",
                                        ![c].frameCount = @ + 1,
                                        ![c].last = "error"]
                 /\ status' = Status("Error processing frame: ", 0)
                 /\ isProcessing' = FALSE
                 /\ UNCHANGED <<dropped, nullRun>>
            ELSE /\ chain' = [ch EXCEPT ![c].pc = "awaiting",
                                        ![c].frameCount = @ + 1,
                                        ![c].last = "none"]
                 /\ isProcessing' = TRUE
                 /\ nullRun' = (nullRun \/ modelSession = "null")
                 /\ UNCHANGED <<status, dropped>>

(* A 'loadeddata' event.  With the listener registered it calls              *)
(* processVideoFrames, which calls processFrame at once (line 107); with no  *)
(* listener the event is lost.                                               *)
LoadedData ==
    /\ events < MaxEvents
    /\ events' = events + 1
    /\ IF listener
       THEN \E syncThrow \in BOOLEAN :
                ProcessFrame(Len(chain) + 1, Append(chain, NewChain), syncThrow)
       ELSE UNCHANGED <<isProcessing, chain, status, dropped, nullRun>>
    /\ UNCHANGED <<modelSession, handler, listener, detections, paused>>

(* The timer of line 104 fires for invocation c. *)
Tick(c) ==
    /\ c \in DOMAIN chain
    /\ chain[c].pc = "timer"
    /\ \E syncThrow \in BOOLEAN : ProcessFrame(c, chain, syncThrow)
    /\ UNCHANGED <<modelSession, handler, listener, detections, paused, events>>

(* runModel settling with the reset of the busy flag inside the try block,   *)
(* so that a rejection skips it.                                             *)
RunModelSettlesResetInTry(c) ==
    /\ c \in DOMAIN chain
    /\ chain[c].pc = "awaiting"
    /\ \E ok \in BOOLEAN :
          /\ ok => modelSession = "session"
          /\ IF ok
             THEN /\ detections' = chain[c].frameCount
                  /\ status' = Status("Processing frame ", chain[c].frameCount)
                  /\ chain' = [chain EXCEPT ![c].pc = "timer", ![c].last = "ok"]
                  /\ isProcessing' = FALSE
             ELSE /\ status' = Status("Error processing frame: ", 0)
                  /\ chain' = [chain EXCEPT ![c].pc = "timer", ![c].last = "error"]
                  /\ UNCHANGED <<detections, isProcessing>>
    /\ UNCHANGED <<modelSession, handler, listener, paused, events, dropped, nullRun>>

(* The promise of runModel settles for invocation c: lines 92-93 when it     *)
(* fulfils, the catch of lines 95-98 when it rejects, then line 100 and the  *)
(* timer of line 104.  With modelSession null runModel can only reject       *)
(* (modelSession.inputNames, line 149).                                      *)
RunModelSettles(c) ==
    /\ c \in DOMAIN chain
    /\ chain[c].pc = "awaiting"
    /\ \E ok \in BOOLEAN :
          /\ ok => modelSession = "session"
          /\ IF ok
             THEN /\ detections' = chain[c].frameCount
                  /\ status' = Status("Processing frame ", chain[c].frameCount)
                  /\ chain' = [chain EXCEPT ![c].pc = "timer", ![c].last = "ok"]
             ELSE /\ status' = Status("Error processing frame: ", 0)
                  /\ chain' = [chain EXCEPT ![c].pc = "timer", ![c].last = "error"]
                  /\ UNCHANGED detections
    /\ isProcessing' = FALSE
    /\ UNCHANGED <<modelSession, handler, listener, paused, events, dropped, nullRun>>

(* The user or the end of the stream pauses the video, or playback resumes.  *)
TogglePaused ==
    /\ paused' = ~paused
    /\ UNCHANGED <<modelSession, isProcessing, handler, listener, chain, status,
                   detections, events, dropped, nullRun>>

Init == VideoInit /\ PureIdle

Next ==
    \/ DOMContentLoaded /\ UNCHANGED pureVars
    \/ InitModelResolved /\ UNCHANGED pureVars
    \/ InitModelRejected /\ UNCHANGED pureVars
    \/ LoadedData /\ UNCHANGED pureVars
    \/ \E c \in 1..MaxEvents : Tick(c) /\ UNCHANGED pureVars
    \/ \E c \in 1..MaxEvents : RunModelSettles(c) /\ UNCHANGED pureVars
    \/ TogglePaused /\ UNCHANGED pureVars

Spec == Init /\ [][Next]_vars

(* Timers fire and the inference engine settles every request. *)
LiveSpec ==
    /\ Init
    /\ [][Next]_vars
    /\ \A c \in 1..MaxEvents : WF_vars(Tick(c) /\ UNCHANGED pureVars)
    /\ \A c \in 1..MaxEvents : WF_vars(RunModelSettles(c) /\ UNCHANGED pureVars)

-----------------------------------------------------------------------------
(* Properties of the video page *)

(* C4: over every interleaving of processFrame runs, of one or of several    *)
(* processVideoFrames invocations, at most one classification is in flight,  *)
(* and a run that finds isProcessing true starts no classification and       *)
(* leaves nothing behind for later: the flag, every frame counter and the    *)
(* set of classifications in flight are as before.                           *)
C4_OneClassificationInFlight ==
    /\ [](Cardinality(InFlight) <= 1)
    /\ [][dropped' # dropped =>
            /\ InFlight' = InFlight
            /\ isProcessing' = isProcessing
            /\ \A c \in DOMAIN chain : chain'[c].frameCount = chain[c].frameCount
            /\ \A c \in DOMAIN chain' \ DOMAIN chain : chain'[c].frameCount = 0]_vars

(* Two invocations exist, one is classifying and a run has been dropped. *)
C4_Witness ==
    /\ Len(chain) >= 2
    /\ InFlight # {}
    /\ dropped > 0

(* The step in which a classification of invocation c fails: a synchronous   *)
(* throw (the frame counter rises and the outcome is an error) or a          *)
(* rejection of the awaited runModel.                                        *)
FailsNow(c) ==
    /\ chain'[c].last = "error"
    /\ \/ c \notin DOMAIN chain
       \/ chain[c].frameCount < chain'[c].frameCount
       \/ chain[c].pc = "awaiting" /\ chain'[c].pc # "awaiting"

(* C5: the step in which a frame's classification fails writes the error to  *)
(* the status element, leaves isProcessing false and schedules the next      *)
(* processFrame; isProcessing is true only while a classification is in      *)
(* flight; and after a failure, unless the video is paused or has ended,     *)
(* a later frame is taken up (by this invocation or by another one), up to   *)
(* the MaxFrames frames an invocation starts here.                           *)
C5_FailedFrameRecovers ==
    /\ [][\A c \in DOMAIN chain' :
            FailsNow(c) =>
                /\ status' = Status("Error processing frame: ", 0)
                /\ isProcessing' = FALSE
                /\ chain'[c].pc = "timer"]_vars
    /\ [](isProcessing => InFlight # {})
    /\ \A c \in 1..MaxEvents : \A n \in 0..MaxFrames :
          (c \in DOMAIN chain /\ chain[c].pc = "timer" /\ chain[c].last = "error"
             /\ chain[c].frameCount = n)
          ~> \/ paused
             \/ InFlight # {}
             \/ c \in DOMAIN chain /\ chain[c].frameCount > n
             \/ n = MaxFrames

(* A frame has failed and the next run is scheduled with the flag clear. *)
C5_Witness ==
    \E c \in DOMAIN chain :
        /\ chain[c].last = "error"
        /\ chain[c].pc = "timer"
        /\ status = Status("Error processing frame: ", 0)
        /\ ~isProcessing
        /\ ~paused
        /\ chain[c].frameCount < MaxFrames

(* C10: runModel is never invoked while modelSession is null: a              *)
(* classification in flight has a session, and as long as the handler has    *)
(* not registered the listener (before DOMContentLoaded, while initModel is  *)
(* pending, after initModel failed) no frame processing exists, whatever     *)
(* 'loadeddata' events fired.                                                *)
C10_RunModelHasSession ==
    /\ ~nullRun
    /\ InFlight # {} => modelSession = "session"
    /\ handler # "done" => (chain = <<>> /\ ~listener)

(* A 'loadeddata' event was lost before the listener existed and a later one *)
(* started a classification.                                                 *)
C10_Witness ==
    /\ events > Len(chain)
    /\ InFlight # {}

-----------------------------------------------------------------------------
(* The pure routines, each run once on an input drawn from a bounded set     *)

MaxProb == 2        \* probabilities are whole units 0..MaxProb
MaxTail == 2        \* freely chosen trailing probabilities
MaxK == 2           \* small values of k (besides n and n + 1)

ProbVals == 0..MaxProb

(* A probability vector: up to as many equal entries as the label table has  *)
(* rows, followed by a free tail, so that lengths reach past the table.      *)
Padded(base, pad, tail) == [i \in 1..pad |-> base] \o tail

TopKInit ==
    /\ VideoInit
    /\ ~paused
    /\ \E base \in ProbVals, pad \in 0..Len(imagenetClasses),
          tail \in SeqsUpTo(ProbVals, MaxTail), f \in {"getTopK", "imagenetClassesTopK"} :
          \E k \in (0..MaxK) \cup {pad + Len(tail), pad + Len(tail) + 1} :
             call = [fn |-> f, probs |-> Padded(base, pad, tail), k |-> k]
    /\ ret = NoResult
    /\ pc = "call"

RunGetTopK ==
    /\ pc = "call"
    /\ call.fn = "getTopK"
    /\ ret' = getTopK(call.probs, call.k)
    /\ pc' = "done"
    /\ UNCHANGED <<call, videoVars>>

RunImagenetClassesTopK ==
    /\ pc = "call"
    /\ call.fn = "imagenetClassesTopK"
    /\ ret' = imagenetClassesTopK(call.probs, call.k)
    /\ pc' = "done"
    /\ UNCHANGED <<call, videoVars>>

TopKNext == RunGetTopK \/ RunImagenetClassesTopK

TopKSpec == TopKInit /\ [][TopKNext]_vars

MaxScores == 3      \* length of a score vector
MaxScore == 3       \* scores are -MaxScore..MaxScore, in units of ln 2

ScoreVals == (-MaxScore)..MaxScore

SoftmaxInit ==
    /\ VideoInit
    /\ ~paused
    /\ \E f \in {"softmax", "softmaxMain"}, x \in SeqsUpTo(ScoreVals, MaxScores) :
          call = [fn |-> f, scores |-> x]
    /\ ret = NoResult
    /\ pc = "call"

RunSoftmax ==
    /\ pc = "call"
    /\ call.fn = "softmax"
    /\ ret' = softmax(call.scores)
    /\ pc' = "done"
    /\ UNCHANGED <<call, videoVars>>

RunSoftmaxMain ==
    /\ pc = "call"
    /\ call.fn = "softmaxMain"
    /\ ret' = softmaxMain(call.scores)
    /\ pc' = "done"
    /\ UNCHANGED <<call, videoVars>>

SoftmaxNext == RunSoftmax \/ RunSoftmaxMain

SoftmaxSpec == SoftmaxInit /\ [][SoftmaxNext]_vars

MaxPixels == 2      \* width * height of a pixel buffer
MaxSlack == 1       \* bytes a buffer is shorter or longer than 4 * width * height

ByteVals == {0, 255}

ImageSizes == {wh \in (1..MaxPixels) \X (1..MaxPixels) : wh[1] * wh[2] <= MaxPixels}

(* The buffers of an image of the given size: 4 * width * height bytes, or   *)
(* up to MaxSlack bytes fewer or more.                                       *)
Buffers(width, height) ==
    UNION {[1..n -> ByteVals] :
              n \in (4 * width * height - MaxSlack)..(4 * width * height + MaxSlack)}

(* The video script's routine is called with the target size equal to the    *)
(* image's own size.                                                         *)
TensorInit ==
    /\ VideoInit
    /\ ~paused
    /\ \E f \in {"imageDataToTensor", "imageDataToTensorMain"}, wh \in ImageSizes :
          \E d \in Buffers(wh[1], wh[2]) :
             call = [fn |-> f, image |-> [data |-> d, width |-> wh[1], height |-> wh[2]]]
    /\ ret = NoResult
    /\ pc = "call"

RunImageDataToTensor ==
    /\ pc = "call"
    /\ call.fn = "imageDataToTensor"
    /\ ret' = imageDataToTensor(call.image, call.image.width, call.image.height)
    /\ pc' = "done"
    /\ UNCHANGED <<call, videoVars>>

RunImageDataToTensorMain ==
    /\ pc = "call"
    /\ call.fn = "imageDataToTensorMain"
    /\ ret' = imageDataToTensorMain(call.image)
    /\ pc' = "done"
    /\ UNCHANGED <<call, videoVars>>

TensorNext == RunImageDataToTensor \/ RunImageDataToTensorMain

TensorSpec == TensorInit /\ [][TensorNext]_vars

-----------------------------------------------------------------------------
(* Properties of top-K selection *)

TopKDone == pc = "done" /\ call.fn \in {"getTopK", "imagenetClassesTopK"}

(* The original index an entry of the result carries. *)
EntryIndex(e) == IF call.fn = "getTopK" THEN e.id ELSE e.index

(* C1: for every probability sequence of length n and every k >= 0, getTopK  *)
(* and imagenetClassesTopK return (rather than fail) exactly min(k, n)       *)
(* entries whose probabilities are non-increasing.                           *)
C1_TopKLengthAndOrder ==
    TopKDone =>
        /\ ret.kind = "value"
        /\ Len(ret.value) = Min(call.k, Len(call.probs))
        /\ \A i \in 1..(Len(ret.value) - 1) :
              ret.value[i].probability >= ret.value[i + 1].probability

(* C2: in the result of getTopK and of imagenetClassesTopK, entries of equal *)
(* probability stand in ascending order of original index, and an index left *)
(* out is larger than every returned index of the same probability.          *)
C2_TiesKeepIndexOrder ==
    (TopKDone /\ ret.kind = "value") =>
        /\ \A i, j \in 1..Len(ret.value) :
              (i < j /\ ret.value[i].probability = ret.value[j].probability)
                  => EntryIndex(ret.value[i]) < EntryIndex(ret.value[j])
        /\ \A i \in 1..Len(ret.value) : \A m \in 0..(Len(call.probs) - 1) :
              (/\ call.probs[m + 1] = ret.value[i].probability
               /\ \A j \in 1..Len(ret.value) : EntryIndex(ret.value[j]) # m)
                  => m > EntryIndex(ret.value[i])

(* The name the claim gives an index: the table's name with spaces for       *)
(* underscores, or "class <index>" for an index the table lacks.             *)
ExpectedName(index) ==
    IF HasClass(index)
    THEN [i \in DOMAIN ClassAt(index)[2] |->
             IF ClassAt(index)[2][i] = "_" THEN " " ELSE ClassAt(index)[2][i]]
    ELSE <<"c", "l", "a", "s", "s", " ">> \o NumberToString(index)

(* C3: getTopK and imagenetClassesTopK do not fail on an index the label     *)
(* table lacks; every returned entry carries the index's expected name.      *)
C3_MissingLabelFallsBack ==
    TopKDone =>
        /\ ret.kind = "value"
        /\ \A i \in 1..Len(ret.value) :
              ret.value[i].name = ExpectedName(EntryIndex(ret.value[i]))

-----------------------------------------------------------------------------
(* Properties of softmax *)

SoftmaxDone == pc = "done" /\ call.fn \in {"softmax", "softmaxMain"}

(* The elements are quotients over one positive denominator and add up to 1. *)
SumsToOne(v) ==
    /\ \A i \in DOMAIN v : v[i].c = "num" /\ v[i].den = v[1].den /\ v[i].den > 0
    /\ SumSeq([i \in DOMAIN v |-> v[i].num]) = v[1].den

(* C8 as stated: for every non-empty score vector softmax returns a vector   *)
(* of the same length that sums to 1 and whose elements are all strictly     *)
(* between 0 and 1.                                                          *)
C8_SoftmaxOpenInterval ==
    (SoftmaxDone /\ call.scores # <<>>) =>
        /\ ret.kind = "value"
        /\ Len(ret.value) = Len(call.scores)
        /\ SumsToOne(ret.value)
        /\ \A i \in DOMAIN ret.value :
              0 < ret.value[i].num /\ ret.value[i].num < ret.value[i].den

(* C8 amended: for every non-empty score vector softmax returns a vector of  *)
(* the same length that sums to 1 and whose elements are all at least 0 and  *)
(* at most 1.                                                                *)
C8_SoftmaxClosedInterval ==
    (SoftmaxDone /\ call.scores # <<>>) =>
        /\ ret.kind = "value"
        /\ Len(ret.value) = Len(call.scores)
        /\ SumsToOne(ret.value)
        /\ \A i \in DOMAIN ret.value :
              0 <= ret.value[i].num /\ ret.value[i].num <= ret.value[i].den

(* softmax has run on a vector of several scores so far apart that one       *)
(* exponential underflowed: an element is exactly 0.                         *)
C8_Witness ==
    /\ SoftmaxDone
    /\ Len(call.scores) >= 2
    /\ ret.kind = "value"
    /\ \E i \in DOMAIN ret.value : ret.value[i].num = 0

(* C9: softmax of an empty score vector fails with an error; it returns no   *)
(* value (no empty vector, no NaN).                                          *)
C9_SoftmaxEmptyFails ==
    (SoftmaxDone /\ call.scores = <<>>) => ret.kind = "error"

(* softmax has run on the empty vector and thrown. *)
C9_Witness ==
    /\ SoftmaxDone
    /\ call.scores = <<>>
    /\ ret = Throw("TypeError")

-----------------------------------------------------------------------------
(* Properties of the pixel buffer to tensor conversion *)

TensorDone == pc = "done" /\ call.fn \in {"imageDataToTensor", "imageDataToTensorMain"}

PixelCount == call.image.width * call.image.height

(* C6: for a buffer of exactly 4 * width * height bytes converted at its own *)
(* size, the tensor has 3 * pixelCount elements and shape                    *)
(* (1, 3, height, width), and element c * pixelCount + i is                  *)
(* input[4 * i + c] / 255 whatever the alpha bytes are.                      *)
C6_PlanarNormalizedTensor ==
    (TensorDone /\ Len(call.image.data) = 4 * PixelCount) =>
        /\ ret.kind = "value"
        /\ Len(ret.value.data) = 3 * PixelCount
        /\ ret.value.dims = <<1, 3, call.image.height, call.image.width>>
        /\ \A i \in 0..(PixelCount - 1) : \A c \in 0..2 :
              LET out == ret.value.data[c * PixelCount + i + 1]
              IN /\ out.c = "num"
                 /\ out.num * 255 = call.image.data[4 * i + c + 1] * out.den

(* C7: a buffer whose length differs from 4 * width * height makes the       *)
(* conversion fail with an error; no tensor is returned.                     *)
C7_SizeMismatchRejected ==
    (TensorDone /\ Len(call.image.data) # 4 * PixelCount) => ret.kind = "error"

====
